---- MODULE Spec2Model ----
(***************************************************************************)
(* A model of the convolution effect node of firewheel-nodes               *)
(* (crates/firewheel-nodes/src/convolution.rs): the node's construction    *)
(* (info, construct_processor) and the per-block ConvolutionProcessor::    *)
(* process, step by step: the patch drain loop, the paused / bypass early  *)
(* returns, the DSP chain, and the end-of-block declick and deferred       *)
(* pause.                                                                  *)
(***************************************************************************)
EXTENDS Integers, Sequences, FiniteSets, TLC

\* ------------------------------------------------------------------ bounds
\* The const generic CHANNELS ranges over 0..MaxChannels.
MaxChannels == 3
\* Impulse-response resources have 1..MaxIrChannels channels.
MaxIrChannels == 2
\* A block's event list holds at most MaxBatch patches.
MaxBatch == 2

\* ------------------------------------------------------------------ values
\* Option<T>: None is the empty tuple, Some(x) the one-element tuple.
None == <<>>
Some(x) == <<x>>
Unwrap(o) == o[1]

NoStatus == "NoStatus"
NoPanic == "NoPanic"
NoProcessor == [constructed |-> FALSE]
NoCall == [op |-> "none"]
\* The output buffers before process has written to them.
Unwritten == [stage |-> "unwritten"]

Min(a, b) == IF a < b THEN a ELSE b
Max(a, b) == IF a > b THEN a ELSE b

\* ChannelCount::MONO and ChannelCount::STEREO, the two documented values of
\* ConvolutionNodeConfig::max_impulse_channel_count.
MONO == 1
STEREO == 2

Mixes == {"CENTER", "FULLY_WET"}
FadeCurves == {"EqualPower3dB", "Linear"}
Volumes == {"Decibels(-20)", "Decibels(0)"}
Inputs == {"silence", "signal"}

\* A resource is identified by its channel count: resource r is a
\* Vec<Vec<f32>> of r channels.
Resources == 1..MaxIrChannels
ImpulseResponses == {None} \cup {Some(r) : r \in Resources}

\* SampleResourceInfo::num_channels of Vec<Vec<f32>>.
num_channels(r) == r

\* SampleResourceF32::channel of Vec<Vec<f32>>: self.get(i); Some(slice i of
\* resource r) is Some(<<r, i>>).
channel(r, i) == IF i < num_channels(r) THEN Some(<<r, i>>) ELSE None

\* The ConvolutionNodePatch variants.
Patches ==
    [field : {"Paused"}, value : BOOLEAN]
        \cup [field : {"Mix"}, value : Mixes]
        \cup [field : {"FadeCurve"}, value : FadeCurves]
        \cup [field : {"ImpulseResponse"}, value : ImpulseResponses]
        \cup [field : {"WetGain"}, value : Volumes]

\* The parameter records a node can be constructed from.
ConvolutionNode ==
    [paused : BOOLEAN, mix : Mixes, fade_curve : FadeCurves,
     impulse_response : ImpulseResponses, wet_gain : Volumes]

\* Mutant: the record starts paused, as the doc comment of the field says.
ConvolutionNodeDefault_Paused ==
    [paused |-> TRUE, mix |-> "CENTER", fade_curve |-> "EqualPower3dB",
     impulse_response |-> None, wet_gain |-> "Decibels(-20)"]

\* ConvolutionNode::default().
ConvolutionNodeDefault ==
    [paused |-> FALSE, mix |-> "CENTER", fade_curve |-> "EqualPower3dB",
     impulse_response |-> None, wet_gain |-> "Decibels(-20)"]

\* ------------------------------------------------------------------ state
VARIABLES
    CHANNELS,       \* the node's const generic channel count
    configuration,  \* ConvolutionNodeConfig
    node,           \* the parameter record the processor is constructed from
    processor,      \* ConvolutionProcessor (NoProcessor before construct_processor)
    pc,             \* "new", "info", "idle", "drain", "dsp", "returned", "panicked"
    pending,        \* patches of the block's event list not yet drained
    input,          \* the block's input content, None until the block reads it
    will_pause,     \* process local
    ir_changed,     \* process local
    status,         \* the ProcessStatus the last block returned
    panic_site,     \* where the program panicked, NoPanic if it has not
    hist,           \* history of the run, read only by the properties
    call,           \* a call of a library function: its arguments, its outcome
    outputs,        \* buffers.outputs as the block's process call has left them
    silence         \* the silence the returned ProcessStatus reports, if any

vars == <<CHANNELS, configuration, node, processor, pc, pending, input,
          will_pause, ir_changed, status, panic_site, hist, call, outputs,
          silence>>

\* ------------------------------------------------------------------ engines
\* FFTConvolver::default(): no impulse response, nothing consumed.
FFTConvolverDefault == [ir |-> None, fed |-> None]

\* FFTConvolver::init(block_size, impulse_response): resets the engine and
\* loads the taps.
FFTConvolverInit(taps) == [ir |-> Some(taps), fed |-> None]

\* FFTConvolver::process(input, output): consumes one block of input.
FFTConvolverProcess(engine, in) == [engine EXCEPT !.fed = Some(in)]

\* MixDSP::new(mix, fade_curve, ..) and MixDSP::set_mix(mix, fade_curve).
MixDSP(mix, fade_curve) == [mix |-> mix, fade_curve |-> fade_curve]

\* Volume::amp(): the raw amplitude of a volume.
amp(volume) ==
    CASE volume = "Decibels(-20)" -> "0.1"
      [] volume = "Decibels(0)" -> "1.0"

\* SmoothedParam::new(value, ..), set_value(target), process_into_buffer.
SmoothedParamNew(value) == [value |-> value, target |-> value]
SmoothedParamSetValue(s, target) == [s EXCEPT !.target = target]
SmoothedParamProcess(s) == [s EXCEPT !.value = s.target]

\* Declicker::default(), fade_to_enabled(enabled, ..), process(..).
DeclickerDefault == [enabled |-> TRUE, settled |-> TRUE]
DeclickerFadeToEnabled(d, enabled) ==
    IF d.enabled = enabled THEN d ELSE [enabled |-> enabled, settled |-> FALSE]
DeclickerProcess(d) == [d EXCEPT !.settled = TRUE]

\* LowpassDeclicker::new(..), begin(), process(..).
LowpassDeclickerNew == "settled"
LowpassDeclickerBegin(d) == "started"
LowpassDeclickerProcess(d) ==
    CASE d = "started" -> "fading"
      [] d = "fading" -> "settled"
      [] OTHER -> "settled"

\* ------------------------------------------------------------------ construction
\* info(): panics when CHANNELS > 2.
InfoPanics(channels) == channels > 2

\* construct_processor(): one default engine per max_impulse_channel_count,
\* the record cloned, the mix engine and the gain smoother built from it.
ConstructProcessor(self, config) ==
    [params |-> self,
     convolvers |-> [i \in 1..config.max_impulse_channel_count |-> FFTConvolverDefault],
     mix |-> MixDSP(self.mix, self.fade_curve),
     input_buffers |-> "silence",
     wet_gain_smoothed |-> SmoothedParamNew(amp(self.wet_gain)),
     declick |-> DeclickerDefault,
     change_ir_declick |-> LowpassDeclickerNew]

\* ------------------------------------------------------------------ patches
\* ConvolutionNodePatch::Mix(mix).
PatchMix(proc, mix) ==
    [proc EXCEPT !.mix = MixDSP(mix, proc.params.fade_curve)]

\* ConvolutionNodePatch::FadeCurve(curve).
PatchFadeCurve(proc, curve) ==
    [proc EXCEPT !.mix = MixDSP(proc.params.mix, curve)]

\* A WetGain patch restarting the smoother at the new gain.
PatchWetGain_Jumps(proc, gain) ==
    [proc EXCEPT !.wet_gain_smoothed = SmoothedParamNew(amp(gain))]

\* ConvolutionNodePatch::WetGain(gain).
PatchWetGain(proc, gain) ==
    [proc EXCEPT !.wet_gain_smoothed = SmoothedParamSetValue(@, amp(gain))]

\* The engine-initialisation loop runs ir_channel_id over
\* 0..(ir_num_channels).max(CHANNELS), ir_num_channels being
\* num_channels().min(CHANNELS).
IrLoopBound(ir, channels) ==
    Max(Min(num_channels(ir), channels), channels)

\* The taps engine ir_channel_id is initialised from: channel(ir_channel_id),
\* or channel(0) when that is None.
IrTaps(ir, ir_channel_id) ==
    IF channel(ir, ir_channel_id) # None
    THEN Unwrap(channel(ir, ir_channel_id))
    ELSE Unwrap(channel(ir, 0))

\* self.convolvers[ir_channel_id] panics when the index is not below the
\* number of engines allocated at construction.
IrInitPanics(convolvers, ir, channels) ==
    IrLoopBound(ir, channels) > Len(convolvers)

\* The engines after the loop (after its last completed iteration when it
\* panics).
IrInitConvolvers(convolvers, ir, channels) ==
    [i \in 1..Len(convolvers) |->
        IF i - 1 < IrLoopBound(ir, channels)
        THEN FFTConvolverInit(IrTaps(ir, i - 1))
        ELSE convolvers[i]]

\* The channel indices the loop passes to impulse_response.channel(..).
IrChannelReads(convolvers, ir, channels) ==
    LET done == Min(IrLoopBound(ir, channels), Len(convolvers))
    IN  {i \in 0..(MaxChannels + MaxIrChannels) : i < done}
            \cup {0 : i \in {j \in 0..(MaxChannels + MaxIrChannels) :
                                j < done /\ channel(ir, j) = None}}

\* ConvolutionNodePatch::ImpulseResponse(impulse_response).
PatchImpulseResponse(proc, ir, channels) ==
    [proc EXCEPT
        !.params.impulse_response = ir,
        !.convolvers = IF ir # None
                       THEN IrInitConvolvers(@, Unwrap(ir), channels)
                       ELSE @]

\* Mutant: a pause request sets the flag at once instead of being deferred.
PausedAfterPatch_Immediate(cur, paused) == paused

\* Mutant: a resume request leaves the flag alone, like a pause request.
PausedAfterPatch_ResumeDeferred(cur, paused) == cur

\* ConvolutionNodePatch::Paused(paused): the paused flag after the patch.
PausedAfterPatch(cur, paused) == IF ~paused THEN FALSE ELSE cur

\* ConvolutionNodePatch::Paused(paused): will_pause after the patch.
WillPauseAfterPatch(wp, paused) == IF ~paused THEN wp ELSE TRUE

PatchPaused(proc, paused) ==
    [proc EXCEPT
        !.params.paused = PausedAfterPatch(@, paused),
        !.declick = DeclickerFadeToEnabled(@, ~paused)]

\* One iteration of the drain loop.
ApplyPatch(proc, patch, channels) ==
    CASE patch.field = "Mix" -> PatchMix(proc, patch.value)
      [] patch.field = "FadeCurve" -> PatchFadeCurve(proc, patch.value)
      [] patch.field = "ImpulseResponse" ->
            PatchImpulseResponse(proc, patch.value, channels)
      [] patch.field = "WetGain" -> PatchWetGain(proc, patch.value)
      [] patch.field = "Paused" -> PatchPaused(proc, patch.value)

PatchPanics(proc, patch, channels) ==
    /\ patch.field = "ImpulseResponse"
    /\ patch.value # None
    /\ IrInitPanics(proc.convolvers, Unwrap(patch.value), channels)

\* ------------------------------------------------------------------ history
\* What the run has done so far; the program never reads it.
\*   pausedAtStart      the paused flag when the current block began
\*   outstandingAtStart the most recent Paused patch before the current
\*                      block carried true
\*   lastPausedEver     the value of the most recent Paused patch
\*   lastPausedInBatch  the value of the most recent Paused patch of the
\*                      current block
\*   resumed            the current block's batch held a Paused(false)
\*   lastMix, lastCurve the most recent Mix / FadeCurve value sent, the
\*                      construction record's before any was
\*   lastIr             the most recent ImpulseResponse patch
\*   reads              the channel indices that patch read
\*   lastWetGain        the most recent WetGain patch
\*   patched            the current block's batch has applied a patch
\*   lastDspInput       the input of the most recent block that ran the
\*                      whole DSP chain, silence before any has
HistInit ==
    [pausedAtStart |-> FALSE, outstandingAtStart |-> FALSE,
     lastPausedEver |-> None, lastPausedInBatch |-> None, resumed |-> FALSE,
     lastMix |-> None, lastCurve |-> None, lastIr |-> None, reads |-> {},
     lastWetGain |-> None, patched |-> FALSE, lastDspInput |-> "silence"]

HistConstruct(h, self) ==
    [h EXCEPT !.lastMix = Some(self.mix), !.lastCurve = Some(self.fade_curve)]

HistBegin(h, proc) ==
    [h EXCEPT !.pausedAtStart = proc.params.paused,
              !.outstandingAtStart = (h.lastPausedEver = Some(TRUE)),
              !.lastPausedInBatch = None, !.resumed = FALSE,
              !.patched = FALSE]

HistPatch(h, proc, patch, channels) ==
    [h EXCEPT
        !.lastPausedEver = IF patch.field = "Paused" THEN Some(patch.value) ELSE @,
        !.lastPausedInBatch = IF patch.field = "Paused" THEN Some(patch.value) ELSE @,
        !.resumed = @ \/ (patch.field = "Paused" /\ ~patch.value),
        !.lastMix = IF patch.field = "Mix" THEN Some(patch.value) ELSE @,
        !.lastCurve = IF patch.field = "FadeCurve" THEN Some(patch.value) ELSE @,
        !.lastIr = IF patch.field = "ImpulseResponse" THEN Some(patch.value) ELSE @,
        !.lastWetGain = IF patch.field = "WetGain" THEN Some(patch.value) ELSE @,
        !.patched = TRUE,
        !.reads = IF patch.field = "ImpulseResponse"
                  THEN IF patch.value # None
                       THEN IrChannelReads(proc.convolvers, Unwrap(patch.value), channels)
                       ELSE {}
                  ELSE @]

HistDsp(h, in) == [h EXCEPT !.lastDspInput = in]

\* ------------------------------------------------------------------ actions
\* A node of any channel count and configuration, about to be constructed
\* from one of the records in Records.
InitFrom(Records) ==
    /\ CHANNELS \in 0..MaxChannels
    /\ configuration \in [max_impulse_channel_count : {MONO, STEREO}]
    /\ node \in Records
    /\ processor = NoProcessor
    /\ pc = "new"
    /\ pending = 0
    /\ input = None
    /\ will_pause = FALSE
    /\ ir_changed = FALSE
    /\ status = NoStatus
    /\ panic_site = NoPanic
    /\ hist = HistInit
    /\ call = NoCall
    /\ outputs = Unwritten
    /\ silence = None

Init == InitFrom(ConvolutionNode)

\* ConvolutionNode::info.
Info ==
    /\ pc = "new"
    /\ IF InfoPanics(CHANNELS)
       THEN pc' = "panicked" /\ panic_site' = "info"
       ELSE pc' = "info" /\ UNCHANGED panic_site
    /\ UNCHANGED <<call, outputs, silence, CHANNELS, configuration, node,
                   processor, pending, input, will_pause, ir_changed, status,
                   hist>>

\* ConvolutionNode::construct_processor.
Construct ==
    /\ pc = "info"
    /\ processor' = ConstructProcessor(node, configuration)
    /\ hist' = HistConstruct(hist, node)
    /\ pc' = "idle"
    /\ UNCHANGED <<call, outputs, silence, CHANNELS, configuration, node,
                   pending, input, will_pause, ir_changed, status,
                   panic_site>>

\* process is entered with a block's event list.
ProcessBegin ==
    /\ pc \in {"idle", "returned"}
    /\ pending' \in 0..MaxBatch
    /\ input' = None
    /\ will_pause' = FALSE
    /\ ir_changed' = FALSE
    /\ status' = NoStatus
    /\ hist' = HistBegin(hist, processor)
    /\ outputs' = Unwritten
    /\ silence' = None
    /\ pc' = "drain"
    /\ UNCHANGED <<call, CHANNELS, configuration, node, processor,
                   panic_site>>

\* for patch in events.drain_patches(): one iteration, the patch being one
\* of Sent.
DrainPatch(Sent) ==
    /\ pc = "drain"
    /\ pending > 0
    /\ \E patch \in Sent :
        /\ processor' = ApplyPatch(processor, patch, CHANNELS)
        /\ hist' = HistPatch(hist, processor, patch, CHANNELS)
        /\ will_pause' = IF patch.field = "Paused"
                         THEN WillPauseAfterPatch(will_pause, patch.value)
                         ELSE will_pause
        /\ ir_changed' = (ir_changed \/ patch.field = "ImpulseResponse")
        /\ IF PatchPanics(processor, patch, CHANNELS)
           THEN pc' = "panicked" /\ panic_site' = "convolvers_init"
           ELSE pc' = pc /\ UNCHANGED panic_site
    /\ pending' = pending - 1
    /\ UNCHANGED <<call, outputs, silence, CHANNELS, configuration, node,
                   input, status>>

\* Mutant: the loop stops before the event list is exhausted.
DrainDone_NotWhole(n) == TRUE

\* The drain loop ends when the event list holds no more patches.
DrainDone(n) == n = 0

\* Mutant: the bypass test comes before the paused test.
Gate_BypassFirst(paused, impulse_response) ==
    IF impulse_response = None THEN "Bypass"
    ELSE IF paused THEN "ClearAllOutputs"
    ELSE "process"

\* Mutant: the bypass test is missing.
Gate_NoBypass(paused, impulse_response) ==
    IF paused THEN "ClearAllOutputs" ELSE "process"

\* What process does once the patches are drained.
Gate(paused, impulse_response) ==
    IF paused THEN "ClearAllOutputs"
    ELSE IF impulse_response = None THEN "Bypass"
    ELSE "process"

\* The paused return running the impulse-response swap declicker before it
\* returns.
ReturnPaused_Fades ==
    /\ pc = "drain"
    /\ DrainDone(pending)
    /\ Gate(processor.params.paused, processor.params.impulse_response)
            = "ClearAllOutputs"
    /\ processor' = [processor EXCEPT
                        !.change_ir_declick = LowpassDeclickerProcess(@)]
    /\ status' = "ClearAllOutputs"
    /\ pc' = "returned"
    /\ UNCHANGED <<call, outputs, silence, CHANNELS, configuration, node,
                   pending, input, will_pause, ir_changed, panic_site, hist>>

\* if self.params.paused { return ProcessStatus::ClearAllOutputs; }
ReturnPaused ==
    /\ pc = "drain"
    /\ DrainDone(pending)
    /\ Gate(processor.params.paused, processor.params.impulse_response)
            = "ClearAllOutputs"
    /\ status' = "ClearAllOutputs"
    /\ pc' = "returned"
    /\ UNCHANGED <<call, outputs, silence, CHANNELS, configuration, node,
                   processor, pending, input, will_pause, ir_changed,
                   panic_site, hist>>

\* if self.params.impulse_response.is_none() { return ProcessStatus::Bypass; }
ReturnBypass ==
    /\ pc = "drain"
    /\ DrainDone(pending)
    /\ Gate(processor.params.paused, processor.params.impulse_response)
            = "Bypass"
    /\ status' = "Bypass"
    /\ pc' = "returned"
    /\ UNCHANGED <<call, outputs, silence, CHANNELS, configuration, node,
                   processor, pending, input, will_pause, ir_changed,
                   panic_site, hist>>

\* self.convolvers[input_index] over the CHANNELS inputs panics when there
\* are fewer engines than inputs.
DspIndexPanics(proc, channels) == channels > Len(proc.convolvers)

\* match CHANNELS { 1 => .., 2 => .., _ => panic!(..) }
DspChannelsPanics(channels) == channels \notin {1, 2}

\* The content of a buffer is "silence" when every sample is zero and
\* "signal" otherwise.
\* The wet signal the engines write into the outputs: an engine holding an
\* impulse response answers the signal it consumes now or consumed in the
\* block before.
WetLevel(proc, in, channels) ==
    IF \E i \in 1..Min(channels, Len(proc.convolvers)) :
            /\ proc.convolvers[i].ir # None
            /\ (in = "signal" \/ proc.convolvers[i].fed = Some("signal"))
    THEN "signal"
    ELSE "silence"

\* mix_dry_into_wet_mono / mix_dry_into_wet_stereo: the dry signal takes part
\* unless the mix is fully wet.
MixLevel(mix, dry, wet) ==
    IF wet = "signal" \/ (dry = "signal" /\ mix.mix # "FULLY_WET")
    THEN "signal"
    ELSE "silence"

\* Declicker::process on the outputs: silence once the fade to disabled has
\* settled.
DeclickLevel(d, level) ==
    IF ~d.enabled /\ d.settled THEN "silence" ELSE level

\* The output buffers after the loop over the inputs: the wet signal scaled
\* by the gain ramp from the smoother's current value to its target.
WetOutputs(proc, in, channels) ==
    [gain |-> <<proc.wet_gain_smoothed.value, proc.wet_gain_smoothed.target>>,
     dry |-> "unmixed",
     samples |-> WetLevel(proc, in, channels),
     stage |-> "wet"]

\* The mix reading the delay buffer after the block's input has been copied
\* into it.
MixedOutputs_AfterCopy(proc, in, channels) ==
    [WetOutputs(proc, in, channels) EXCEPT
        !.dry = in,
        !.samples = MixLevel(proc.mix, in, @),
        !.stage = "mixed"]

\* The output buffers after the dry signal, read from the delay buffer, has
\* been mixed into the wet signal.
MixedOutputs(proc, in, channels) ==
    [WetOutputs(proc, in, channels) EXCEPT
        !.dry = proc.input_buffers,
        !.samples = MixLevel(proc.mix, proc.input_buffers, @),
        !.stage = "mixed"]

\* The gain ramp and the loop over the inputs: engine input_index consumes
\* input input_index, for every input that has an engine.
DspConvolve(proc, in, channels) ==
    [proc EXCEPT
        !.wet_gain_smoothed = SmoothedParamProcess(@),
        !.convolvers = [i \in 1..Len(@) |->
                            IF i <= channels
                            THEN FFTConvolverProcess(@[i], in)
                            ELSE @[i]]]

\* The DSP chain: gain ramp, convolution of each input, dry mix from the
\* delay buffer, delay buffer overwritten with the block's input.
DspChain(proc, in, channels) ==
    [DspConvolve(proc, in, channels) EXCEPT !.input_buffers = in]

\* The inputs are read, one of Heard.
ProcessDsp(Heard) ==
    /\ pc = "drain"
    /\ DrainDone(pending)
    /\ Gate(processor.params.paused, processor.params.impulse_response)
            = "process"
    /\ \E in \in Heard :
        /\ input' = Some(in)
        /\ IF DspIndexPanics(processor, CHANNELS)
           THEN /\ pc' = "panicked"
                /\ panic_site' = "convolvers_process"
                /\ processor' = DspConvolve(processor, in, CHANNELS)
                /\ outputs' = WetOutputs(processor, in, CHANNELS)
                /\ UNCHANGED hist
           ELSE IF DspChannelsPanics(CHANNELS)
           THEN /\ pc' = "panicked"
                /\ panic_site' = "match_channels"
                /\ processor' = DspConvolve(processor, in, CHANNELS)
                /\ outputs' = WetOutputs(processor, in, CHANNELS)
                /\ UNCHANGED hist
           ELSE /\ pc' = "dsp"
                /\ processor' = DspChain(processor, in, CHANNELS)
                /\ outputs' = MixedOutputs(processor, in, CHANNELS)
                /\ hist' = HistDsp(hist, in)
                /\ UNCHANGED panic_site
    /\ UNCHANGED <<call, silence, CHANNELS, configuration, node, pending,
                   will_pause, ir_changed, status>>

\* The end of the block: the declick fade, the impulse-response swap fade,
\* the deferred pause.
EndOfBlock(proc, wp, irc) ==
    [proc EXCEPT
        !.declick = DeclickerProcess(@),
        !.change_ir_declick =
            LowpassDeclickerProcess(IF irc THEN LowpassDeclickerBegin(@) ELSE @),
        !.params.paused = IF wp THEN TRUE ELSE @]

\* The output buffers after the two declickers.
FinalOutputs(proc, out) ==
    [out EXCEPT !.samples = DeclickLevel(proc.declick, @), !.stage = "final"]

\* The scan reading the output buffers as they were before the declickers.
ScannedOutputs_BeforeDeclick(before, after) == before

\* The output buffers check_for_silence_on_outputs reads: the scan is the
\* last statement of process.
ScannedOutputs(before, after) == after

\* buffers.check_for_silence_on_outputs(f32::EPSILON): whether every output
\* sample is within the epsilon of zero.
check_for_silence_on_outputs(out) == out.samples = "silence"

ProcessFinish ==
    /\ pc = "dsp"
    /\ processor' = EndOfBlock(processor, will_pause, ir_changed)
    /\ outputs' = FinalOutputs(processor, outputs)
    /\ silence' = Some(check_for_silence_on_outputs(
                            ScannedOutputs(outputs, outputs')))
    /\ status' = "OutputsModified"
    /\ pc' = "returned"
    /\ UNCHANGED <<call, CHANNELS, configuration, node, pending, input,
                   will_pause, ir_changed, panic_site, hist>>

\* The program, the control side sending patches of Sent and the graph
\* feeding inputs of Heard.
NextOver(Sent, Heard) ==
    \/ Info
    \/ Construct
    \/ ProcessBegin
    \/ DrainPatch(Sent)
    \/ ReturnPaused
    \/ ReturnBypass
    \/ ProcessDsp(Heard)
    \/ ProcessFinish

\* The whole program: every patch, every input.
Next == NextOver(Patches, Inputs)

Spec == Init /\ [][Next]_vars

\* The fields of the record are independent of one another in process
\* except through the paused and impulse-response tests, so the properties
\* are checked over the runs of every node, configuration and construction
\* record in which the control side changes the fields a property is about.

\* The runs in which only the paused flag and the impulse response are
\* changed after construction.
PauseIrPatches == {p \in Patches : p.field \in {"Paused", "ImpulseResponse"}}
NextPauseIr == NextOver(PauseIrPatches, Inputs)
SpecPauseIr == Init /\ [][NextPauseIr]_vars

\* The runs in which only the mix and the fade curve are changed after
\* construction.
MixPatches == {p \in Patches : p.field \in {"Mix", "FadeCurve"}}
NextMix == NextOver(MixPatches, Inputs)
SpecMix == Init /\ [][NextMix]_vars

\* The runs in which the wet gain and the paused flag are changed and a mono
\* impulse response is installed after construction, from the records with
\* the default mix and fade curve.
GainPatches ==
    {p \in Patches : \/ p.field \in {"WetGain", "Paused"}
                     \/ (p.field = "ImpulseResponse" /\ p.value = Some(MONO))}
GainRecords ==
    {r \in ConvolutionNode : /\ r.mix = ConvolutionNodeDefault.mix
                             /\ r.fade_curve = ConvolutionNodeDefault.fade_curve}
NextGain == NextOver(GainPatches, Inputs)
SpecGain == InitFrom(GainRecords) /\ [][NextGain]_vars

\* ------------------------------------------------------------------ diffing
\* The fields of ConvolutionNode in declaration order.
Fields == <<"paused", "mix", "fade_curve", "impulse_response", "wet_gain">>

FieldValue(rec, field) ==
    CASE field = "paused" -> rec.paused
      [] field = "mix" -> rec.mix
      [] field = "fade_curve" -> rec.fade_curve
      [] field = "impulse_response" -> rec.impulse_response
      [] field = "wet_gain" -> rec.wet_gain

\* The ConvolutionNodePatch variant of a field.
PatchVariant(field) ==
    CASE field = "paused" -> "Paused"
      [] field = "mix" -> "Mix"
      [] field = "fade_curve" -> "FadeCurve"
      [] field = "impulse_response" -> "ImpulseResponse"
      [] field = "wet_gain" -> "WetGain"

\* Mutant: the patch carries the baseline's value.
DiffField_Baseline(self, baseline, field) ==
    IF FieldValue(self, field) # FieldValue(baseline, field)
    THEN <<[field |-> PatchVariant(field), value |-> FieldValue(baseline, field)]>>
    ELSE <<>>

\* derive(Diff), one field: a patch carrying self's value when it differs
\* from the baseline's.
DiffField(self, baseline, field) ==
    IF FieldValue(self, field) # FieldValue(baseline, field)
    THEN <<[field |-> PatchVariant(field), value |-> FieldValue(self, field)]>>
    ELSE <<>>

\* derive(Diff): self.diff(&baseline, ..) visits the fields in declaration
\* order.
diff(self, baseline) ==
    DiffField(self, baseline, Fields[1])
        \o DiffField(self, baseline, Fields[2])
        \o DiffField(self, baseline, Fields[3])
        \o DiffField(self, baseline, Fields[4])
        \o DiffField(self, baseline, Fields[5])

\* The variables of the node and its processor.
nodeVars == <<CHANNELS, configuration, node, processor, pc, pending, input,
              will_pause, ir_changed, status, panic_site, hist, outputs,
              silence>>

\* No node takes part: a library function is called on its own.
NodeUnused ==
    /\ CHANNELS = STEREO
    /\ configuration = [max_impulse_channel_count |-> STEREO]
    /\ node = ConvolutionNodeDefault
    /\ processor = NoProcessor
    /\ pc = "new"
    /\ pending = 0
    /\ input = None
    /\ will_pause = FALSE
    /\ ir_changed = FALSE
    /\ status = NoStatus
    /\ panic_site = NoPanic
    /\ hist = HistInit
    /\ outputs = Unwritten
    /\ silence = None

\* The control side is about to diff a record against a baseline, any two
\* records.
InitDiff ==
    /\ NodeUnused
    /\ call \in {[op |-> "diff", self |-> new, baseline |-> old,
                  done |-> FALSE, patches |-> <<>>] :
                    new \in ConvolutionNode, old \in ConvolutionNode}

\* self.diff(&baseline, ..): the patches pushed to the event queue.
DiffCall ==
    /\ call.op = "diff"
    /\ ~call.done
    /\ call' = [call EXCEPT !.done = TRUE,
                            !.patches = diff(call.self, call.baseline)]
    /\ UNCHANGED nodeVars

NextDiff == DiffCall

SpecDiff == InitDiff /\ [][NextDiff]_vars

\* ------------------------------------------------------------------ sample resources
\* A resource holds 0..MaxFrames frames.
MaxFrames == 2
\* A call passes 0..MaxBuffers destination buffers, each of BufLen samples.
MaxBuffers == 3
BufLen == 3
\* usize is UsizeBits wide.
UsizeBits == 6

UsizeModulus == 2 ^ UsizeBits

ChannelCounts == {1, 2, 3, 5}
Layouts == {"interleaved", "deinterleaved"}
Encodings == {"i16", "u16", "f32"}

\* i16::MAX, i16::MIN, u16::MAX.
I16_MAX == 32767
I16_MIN == 0 - 32768
U16_MAX == 65535

\* An f32 is written <<m, e>>, the number m * 2^-e, with m odd, or <<0, 0>>;
\* its significand has at most F32Bits bits. Every value met here is far
\* from the exponent limits of the format.
F32Bits == 24

Abs(n) == IF n < 0 THEN 0 - n ELSE n
Sign(n) == IF n < 0 THEN 0 - 1 ELSE 1

RECURSIVE BitLen(_)
BitLen(n) == IF n = 0 THEN 0 ELSE 1 + BitLen(n \div 2)

\* The written form of mag * 2^-e, mag >= 0.
RECURSIVE F32Of(_, _)
F32Of(mag, e) ==
    IF mag = 0 THEN <<0, 0>>
    ELSE IF mag % 2 = 0 THEN F32Of(mag \div 2, e - 1)
    ELSE <<mag, e>>

F32Neg(a) == <<0 - a[1], a[2]>>
F32Signed(sign, a) == IF sign < 0 THEN F32Neg(a) ELSE a

\* Round to nearest, ties to even: q plus a remainder of twice_rem / (2 *
\* unit) of a unit in the last place.
RoundEven(q, twice_rem, unit) ==
    IF twice_rem > unit \/ (twice_rem = unit /\ q % 2 = 1) THEN q + 1 ELSE q

\* The f32 nearest to (hi * 4096 + lo) * 2^-e, 0 <= lo < 4096: the integer
\* is kept in two parts because it may exceed 31 bits.
F32Round(hi, lo, e) ==
    IF BitLen(hi) + 12 <= F32Bits
    THEN F32Of((hi * 4096) + lo, e)
    ELSE LET d == (BitLen(hi) + 12) - F32Bits
         IN  IF d <= 12
             THEN F32Of(RoundEven((hi * (2 ^ (12 - d))) + (lo \div (2 ^ d)),
                                  2 * (lo % (2 ^ d)), 2 ^ d),
                        e - d)
             ELSE F32Of(RoundEven(hi \div (2 ^ (d - 12)),
                                  2 * (((hi % (2 ^ (d - 12))) * 4096) + lo),
                                  2 ^ d),
                        e - d)

\* f32::from(s) of an i16 or u16: exact.
F32From(s) == F32Signed(Sign(s), F32Of(Abs(s), 0))

\* a * b in f32, one of the operands having at most 16 significant bits.
F32Mul(a, b) ==
    LET small == IF Abs(a[1]) <= Abs(b[1]) THEN Abs(a[1]) ELSE Abs(b[1])
        large == IF Abs(a[1]) <= Abs(b[1]) THEN Abs(b[1]) ELSE Abs(a[1])
        low == small * (large % 4096)
    IN  F32Signed(Sign(a[1]) * Sign(b[1]),
                  F32Round((small * (large \div 4096)) + (low \div 4096),
                           low % 4096, a[2] + b[2]))

\* a - b in f32, for a >= 0 and b >= 0, the one of the larger magnitude
\* per unit in the last place being a small integer.
F32Sub(a, b) ==
    LET e == Max(a[2], b[2])
        \* m * 2^shift in two parts
        Hi(m, shift) == IF shift >= 12 THEN m * (2 ^ (shift - 12))
                        ELSE m \div (2 ^ (12 - shift))
        Lo(m, shift) == IF shift >= 12 THEN 0
                        ELSE (m % (2 ^ (12 - shift))) * (2 ^ shift)
        ah == Hi(a[1], e - a[2])
        al == Lo(a[1], e - a[2])
        bh == Hi(b[1], e - b[2])
        bl == Lo(b[1], e - b[2])
    IN  IF ah > bh \/ (ah = bh /\ al >= bl)
        THEN F32Round(IF al >= bl THEN ah - bh ELSE (ah - bh) - 1,
                      IF al >= bl THEN al - bl ELSE (al + 4096) - bl, e)
        ELSE F32Neg(F32Round(IF bl >= al THEN bh - ah ELSE (bh - ah) - 1,
                             IF bl >= al THEN bl - al ELSE (bl + 4096) - al, e))

\* The quotient bits of n / d: q and the remainder r after e binary places,
\* until q has F32Bits bits.
RECURSIVE DivBits(_, _, _, _)
DivBits(q, r, d, e) ==
    IF q >= 2 ^ (F32Bits - 1) THEN <<q, r, e>>
    ELSE DivBits((2 * q) + (IF 2 * r >= d THEN 1 ELSE 0), (2 * r) % d, d, e + 1)

\* n as f32 / d as f32 in f32, for integers |n| and d below 2^16, d > 0.
F32Div(n, d) ==
    IF n = 0 THEN <<0, 0>>
    ELSE LET t == DivBits(Abs(n) \div d, Abs(n) % d, d, 0)
         IN  F32Signed(Sign(n), F32Of(RoundEven(t[1], 2 * t[2], d), t[3]))

F32Abs(a) == <<Abs(a[1]), a[2]>>

\* a <= b, under the restriction of F32Sub.
F32Le(a, b) ==
    IF a[1] < 0 /\ b[1] >= 0 THEN TRUE
    ELSE IF a[1] >= 0 /\ b[1] < 0 THEN FALSE
    ELSE IF a[1] >= 0 THEN F32Sub(b, a)[1] >= 0
    ELSE F32Sub(F32Abs(a), F32Abs(b))[1] >= 0

F32_ONE == <<1, 0>>

\* 1.0 / i16::MAX as f32
I16_RECIP == F32Div(1, I16_MAX)

\* 2.0 / u16::MAX as f32
U16_SCALE == F32Div(2, U16_MAX)

\* f32::from(s) * (1.0 / i16::MAX as f32)
pcm_i16_to_f32(s) == F32Mul(F32From(s), I16_RECIP)

\* (f32::from(s) * (2.0 / u16::MAX as f32)) - 1.0
pcm_u16_to_f32(s) == F32Sub(F32Mul(F32From(s), U16_SCALE), F32_ONE)

\* The convert argument the resource of an encoding passes: pcm_i16_to_f32,
\* pcm_u16_to_f32, |s| s.
convert(encoding, s) ==
    CASE encoding = "i16" -> pcm_i16_to_f32(s)
      [] encoding = "u16" -> pcm_u16_to_f32(s)
      [] encoding = "f32" -> s

\* The k-th sample a resource stores, every stored sample distinct: an i16
\* from i16::MIN up, a u16 from 0 up, an f32.
Stored(encoding, k) ==
    CASE encoding = "i16" -> (3000 * (k - 1)) - 32768
      [] encoding = "u16" -> 3000 * (k - 1)
      [] encoding = "f32" -> F32Signed(Sign(k - 4), F32Of(Abs(k - 4), 5))

\* InterleavedResourceI16 / U16 / F32 { data, channels }: frames whole
\* frames followed by slack samples of an incomplete one.
InterleavedResource(encoding, channels, frames, slack) ==
    [layout |-> "interleaved", encoding |-> encoding, channels |-> channels,
     data |-> [k \in 1..((frames * channels) + slack) |-> Stored(encoding, k)]]

\* Vec<Vec<i16>> / Vec<Vec<u16>> / Vec<Vec<f32>>: the first channel holds
\* frames samples, the others slack fewer.
DeinterleavedResource(encoding, channels, frames, slack) ==
    [layout |-> "deinterleaved", encoding |-> encoding, channels |-> channels,
     data |-> [c \in 1..channels |->
                [f \in 1..(IF c = 1 THEN frames ELSE frames - slack) |->
                    Stored(encoding, ((c - 1) * (MaxFrames + 1)) + f)]]]

\* SampleResourceInfo::len_frames.
len_frames(resource) ==
    IF resource.layout = "interleaved"
    THEN Len(resource.data) \div resource.channels
    ELSE Len(resource.data[1])

\* Arithmetic on usize: a result that does not fit panics when the build has
\* overflow checks and wraps when it has not. Overflowed stands for a panic
\* already raised in a subexpression.
Overflowed == 0 - 1
UsizeAdd(checked, a, b) ==
    IF a = Overflowed \/ b = Overflowed THEN Overflowed
    ELSE IF a + b < UsizeModulus THEN a + b
    ELSE IF checked THEN Overflowed
    ELSE (a + b) % UsizeModulus
UsizeSub(checked, a, b) ==
    IF a = Overflowed \/ b = Overflowed THEN Overflowed
    ELSE IF a >= b THEN a - b
    ELSE IF checked THEN Overflowed
    ELSE (a - b) + UsizeModulus
UsizeMul(checked, a, b) ==
    IF a = Overflowed \/ b = Overflowed THEN Overflowed
    ELSE IF a * b < UsizeModulus THEN a * b
    ELSE IF checked THEN Overflowed
    ELSE (a * b) % UsizeModulus

\* &v[from..to] panics unless from <= to <= v.len().
SlicePanics(len, from, to) ==
    from = Overflowed \/ to = Overflowed \/ from > to \/ to > len

\* Mutant: the slice is taken from the start of v.
Slice_FromStart(v, from, to) == SubSeq(v, 1, to - from)

\* &v[from..to].
Slice(v, from, to) == SubSeq(v, from + 1, to)

\* Mutant: the samples of buf outside the range are cleared.
Written_ClearsRest(buf, buffer_range, samples) ==
    [i \in 1..Len(buf) |->
        IF buffer_range.start < i /\ i <= buffer_range.start + Len(samples)
        THEN samples[i - buffer_range.start]
        ELSE <<0, 1>>]

\* buf[buffer_range].iter_mut() zipped with samples and assigned: buf after
\* the loop.
Written(buf, buffer_range, samples) ==
    [i \in 1..Len(buf) |->
        IF buffer_range.start < i /\ i <= buffer_range.start + Len(samples)
        THEN samples[i - buffer_range.start]
        ELSE buf[i]]

\* The outcome of a call: the buffers it leaves, and whether it panicked.
Returns(buffers) == [panicked |-> FALSE, buffers |-> buffers]
Panics(buffers) == [panicked |-> TRUE, buffers |-> buffers]

\* A loop over the first n buffers whose iteration b panics when b is in
\* bad and otherwise leaves buffer b as filled[b]: the loop stops at the first
\* iteration that panics.
Loop(buffers, n, bad, filled) ==
    LET done == IF bad = {} THEN n
                ELSE (CHOOSE b \in bad : \A o \in bad : b <= o) - 1
    IN  [panicked |-> bad # {},
         buffers |-> [b \in 1..Len(buffers) |->
                        IF b <= done THEN filled[b] ELSE buffers[b]]]

\* src.chunks_exact(channels) zipped with frames destination samples:
\* sample ch_i of each chunk, converted.
ChunkSamples(src, channels, ch_i, frames, encoding) ==
    [k \in 1..Min(Len(src) \div channels, frames) |->
        convert(encoding, src[((k - 1) * channels) + ch_i + 1])]

\* fill_buffers_interleaved, if channels == 1.
InterleavedMono(buffers, buffer_range, start_frame, data, encoding, checked) ==
    LET frames == UsizeSub(checked, buffer_range.end, buffer_range.start)
        to == UsizeAdd(checked, start_frame, frames)
    IN  IF \/ frames = Overflowed
           \/ Len(buffers) = 0
           \/ SlicePanics(Len(buffers[1]), buffer_range.start, buffer_range.end)
           \/ SlicePanics(Len(data), start_frame, to)
        THEN Panics(buffers)
        ELSE LET src == Slice(data, start_frame, to)
             IN  Returns([buffers EXCEPT ![1] =
                    Written(@, buffer_range,
                        [k \in 1..Min(frames, Len(src)) |-> convert(encoding, src[k])])])

\* Mutant: the two channels of a frame are taken in the wrong order.
InterleavedStereo_Swapped(buffers, buffer_range, start_frame, data, encoding, checked) ==
    LET frames == UsizeSub(checked, buffer_range.end, buffer_range.start)
        from == UsizeMul(checked, start_frame, 2)
        to == UsizeMul(checked, UsizeAdd(checked, start_frame, frames), 2)
    IN  IF \/ frames = Overflowed
           \/ SlicePanics(Len(buffers[1]), buffer_range.start, buffer_range.end)
           \/ SlicePanics(Len(buffers[2]), buffer_range.start, buffer_range.end)
           \/ SlicePanics(Len(data), from, to)
        THEN Panics(buffers)
        ELSE LET src_slice == Slice(data, from, to)
             IN  Returns([buffers EXCEPT
                    ![1] = Written(@, buffer_range,
                                ChunkSamples(src_slice, 2, 1, frames, encoding)),
                    ![2] = Written(@, buffer_range,
                                ChunkSamples(src_slice, 2, 0, frames, encoding))])

\* fill_buffers_interleaved, if channels == 2 && buffers.len() >= 2.
InterleavedStereo(buffers, buffer_range, start_frame, data, encoding, checked) ==
    LET frames == UsizeSub(checked, buffer_range.end, buffer_range.start)
        from == UsizeMul(checked, start_frame, 2)
        to == UsizeMul(checked, UsizeAdd(checked, start_frame, frames), 2)
    IN  IF \/ frames = Overflowed
           \/ SlicePanics(Len(buffers[1]), buffer_range.start, buffer_range.end)
           \/ SlicePanics(Len(buffers[2]), buffer_range.start, buffer_range.end)
           \/ SlicePanics(Len(data), from, to)
        THEN Panics(buffers)
        ELSE LET src_slice == Slice(data, from, to)
             IN  Returns([buffers EXCEPT
                    ![1] = Written(@, buffer_range,
                                ChunkSamples(src_slice, 2, 0, frames, encoding)),
                    ![2] = Written(@, buffer_range,
                                ChunkSamples(src_slice, 2, 1, frames, encoding))])

\* fill_buffers_interleaved, the loop over (0..channels).zip(buffers).
InterleavedGeneral(buffers, buffer_range, start_frame, channels, data, encoding, checked) ==
    LET frames == UsizeSub(checked, buffer_range.end, buffer_range.start)
        from == UsizeMul(checked, start_frame, channels)
        to == UsizeMul(checked, UsizeAdd(checked, start_frame, frames), channels)
    IN  IF frames = Overflowed \/ SlicePanics(Len(data), from, to)
        THEN Panics(buffers)
        ELSE LET src_slice == Slice(data, from, to)
                 n == Min(channels, Len(buffers))
                 bad == {b \in 1..n :
                            SlicePanics(Len(buffers[b]), buffer_range.start,
                                        buffer_range.end)}
             IN  Loop(buffers, n, bad,
                    [b \in 1..n |->
                        IF b \in bad THEN buffers[b]
                        ELSE Written(buffers[b], buffer_range,
                                ChunkSamples(src_slice, channels, b - 1, frames,
                                             encoding))])

fill_buffers_interleaved(buffers, buffer_range, start_frame, channels, data, encoding, checked) ==
    IF channels = 1
    THEN InterleavedMono(buffers, buffer_range, start_frame, data, encoding, checked)
    ELSE IF channels = 2 /\ Len(buffers) >= 2
    THEN InterleavedStereo(buffers, buffer_range, start_frame, data, encoding, checked)
    ELSE InterleavedGeneral(buffers, buffer_range, start_frame, channels, data,
                            encoding, checked)

\* fill_buffers_deinterleaved, if data.len() == 2 && buffers.len() >= 2.
DeinterleavedStereo(buffers, buffer_range, start_frame, data, encoding, checked) ==
    LET frames == UsizeSub(checked, buffer_range.end, buffer_range.start)
        to == UsizeAdd(checked, start_frame, frames)
    IN  IF \/ frames = Overflowed
           \/ SlicePanics(Len(buffers[1]), buffer_range.start, buffer_range.end)
           \/ SlicePanics(Len(buffers[2]), buffer_range.start, buffer_range.end)
           \/ SlicePanics(Len(data[1]), start_frame, to)
           \/ SlicePanics(Len(data[2]), start_frame, to)
        THEN Panics(buffers)
        ELSE LET s0 == Slice(data[1], start_frame, to)
                 s1 == Slice(data[2], start_frame, to)
             IN  Returns([buffers EXCEPT
                    ![1] = Written(@, buffer_range,
                                [i \in 1..frames |-> convert(encoding, s0[i])]),
                    ![2] = Written(@, buffer_range,
                                [i \in 1..frames |-> convert(encoding, s1[i])])])

\* fill_buffers_deinterleaved, the loop over buffers.zip(data).
DeinterleavedGeneral(buffers, buffer_range, start_frame, data, encoding, checked) ==
    LET frames == UsizeSub(checked, buffer_range.end, buffer_range.start)
        to == UsizeAdd(checked, start_frame, frames)
    IN  IF frames = Overflowed
        THEN Panics(buffers)
        ELSE LET n == Min(Len(buffers), Len(data))
                 bad == {b \in 1..n :
                            \/ SlicePanics(Len(buffers[b]), buffer_range.start,
                                           buffer_range.end)
                            \/ SlicePanics(Len(data[b]), start_frame, to)}
             IN  Loop(buffers, n, bad,
                    [b \in 1..n |->
                        IF b \in bad THEN buffers[b]
                        ELSE LET ch == Slice(data[b], start_frame, to)
                             IN  Written(buffers[b], buffer_range,
                                    [i \in 1..Min(frames, Len(ch)) |->
                                        convert(encoding, ch[i])])])

fill_buffers_deinterleaved(buffers, buffer_range, start_frame, data, encoding, checked) ==
    IF Len(data) = 2 /\ Len(buffers) >= 2
    THEN DeinterleavedStereo(buffers, buffer_range, start_frame, data, encoding, checked)
    ELSE DeinterleavedGeneral(buffers, buffer_range, start_frame, data, encoding,
                              checked)

\* fill_buffers_deinterleaved_f32: copy_from_slice per buffer, which panics
\* when the two slices differ in length.
fill_buffers_deinterleaved_f32(buffers, buffer_range, start_frame, data, checked) ==
    LET to == UsizeSub(checked,
                       UsizeAdd(checked, start_frame, buffer_range.end),
                       buffer_range.start)
        n == Min(Len(buffers), Len(data))
        bad == {b \in 1..n :
                    \/ SlicePanics(Len(buffers[b]), buffer_range.start,
                                   buffer_range.end)
                    \/ SlicePanics(Len(data[b]), start_frame, to)
                    \/ to - start_frame # buffer_range.end - buffer_range.start}
    IN  Loop(buffers, n, bad,
            [b \in 1..n |->
                IF b \in bad THEN buffers[b]
                ELSE Written(buffers[b], buffer_range,
                             Slice(data[b], start_frame, to))])

\* SampleResource::fill_buffers of each resource type.
fill_buffers(resource, buffers, buffer_range, start_frame, checked) ==
    IF resource.layout = "interleaved"
    THEN fill_buffers_interleaved(buffers, buffer_range, start_frame,
                                  resource.channels, resource.data,
                                  resource.encoding, checked)
    ELSE IF resource.encoding = "f32"
    THEN fill_buffers_deinterleaved_f32(buffers, buffer_range, start_frame,
                                        resource.data, checked)
    ELSE fill_buffers_deinterleaved(buffers, buffer_range, start_frame,
                                    resource.data, resource.encoding, checked)

\* SampleResourceInfo::num_channels.
resource_num_channels(resource) ==
    IF resource.layout = "interleaved"
    THEN resource.channels
    ELSE Len(resource.data)

\* The raw sample a resource stores for channel c at frame f: sample c of
\* frame f of interleaved data, sample f of channel c of de-interleaved data.
RawSample(resource, c, f) ==
    IF resource.layout = "interleaved"
    THEN resource.data[(f * resource.channels) + c + 1]
    ELSE resource.data[c + 1][f + 1]

\* The storage holds exactly len_frames samples of each channel.
Rectangular(resource) ==
    IF resource.layout = "interleaved"
    THEN Len(resource.data) = len_frames(resource) * resource.channels
    ELSE \A c \in 1..Len(resource.data) :
            Len(resource.data[c]) = len_frames(resource)

\* The number of samples the storage of a resource holds.
SamplesStored(resource) ==
    IF resource.layout = "interleaved"
    THEN Len(resource.data)
    ELSE Cardinality({cf \in (1..Len(resource.data)) \X (1..(MaxFrames + 1)) :
                        cf[2] <= Len(resource.data[cf[1]])})

\* What the loop over the channels, without the single-channel and
\* two-channel paths, does for a resource.
GeneralPath(resource, buffers, buffer_range, start_frame, checked) ==
    IF resource.layout = "interleaved"
    THEN InterleavedGeneral(buffers, buffer_range, start_frame, resource.channels,
                            resource.data, resource.encoding, checked)
    ELSE DeinterleavedGeneral(buffers, buffer_range, start_frame, resource.data,
                              resource.encoding, checked)

\* The destination buffers before a call, every sample distinct and none a
\* value a conversion produces.
Buffers(nb) == [b \in 1..nb |-> [i \in 1..BufLen |-> F32From(100 + (10 * b) + i)]]

\* The start frames a call is made with: inside the resource, just past its
\* end, and half of usize's range.
StartFrames == (0..(MaxFrames + 1)) \cup {UsizeModulus \div 2}

\* A fill_buffers call is about to be made on a resource of any layout,
\* encoding, channel count and length, with any number of buffers, any range
\* of them and any start frame, in a build with or without overflow checks.
InitFill ==
    /\ NodeUnused
    /\ \E layout \in Layouts, encoding \in Encodings, channels \in ChannelCounts,
          frames \in 0..MaxFrames, slack \in 0..1, nb \in 0..MaxBuffers,
          start \in 0..BufLen, end \in 0..BufLen, start_frame \in StartFrames,
          checked \in BOOLEAN :
        /\ start <= end
        /\ slack = 1 => (channels >= 2 /\ (layout = "deinterleaved" => frames >= 1))
        /\ call = [op |-> "fill_buffers",
                   resource |-> IF layout = "interleaved"
                                THEN InterleavedResource(encoding, channels, frames, slack)
                                ELSE DeinterleavedResource(encoding, channels, frames, slack),
                   before |-> Buffers(nb),
                   buffers |-> Buffers(nb),
                   buffer_range |-> [start |-> start, end |-> end],
                   start_frame |-> start_frame,
                   overflow_checks |-> checked,
                   done |-> FALSE,
                   panicked |-> FALSE]

\* resource.fill_buffers(buffers, buffer_range, start_frame).
FillBuffersCall ==
    /\ call.op = "fill_buffers"
    /\ ~call.done
    /\ LET out == fill_buffers(call.resource, call.before, call.buffer_range,
                               call.start_frame, call.overflow_checks)
       IN  call' = [call EXCEPT !.done = TRUE,
                                !.panicked = out.panicked,
                                !.buffers = out.buffers]
    /\ UNCHANGED nodeVars

NextFill == FillBuffersCall

SpecFill == InitFill /\ [][NextFill]_vars

\* ------------------------------------------------------------------ pcm conversion
\* The f32 samples a conversion is given: the thirds of the i16 range.
F32Samples == {F32Div(n, 3) : n \in I16_MIN..I16_MAX}

\* The samples an encoding stores: every i16, every u16, f32 values.
Samples(encoding) ==
    CASE encoding = "i16" -> I16_MIN..I16_MAX
      [] encoding = "u16" -> 0..U16_MAX
      [] encoding = "f32" -> F32Samples

\* A resource is about to convert one of its stored samples.
InitPcm ==
    /\ NodeUnused
    /\ \E encoding \in Encodings :
         \E sample \in Samples(encoding) :
            call = [op |-> "convert", encoding |-> encoding, sample |-> sample,
                    done |-> FALSE, value |-> <<0, 0>>]

\* convert(s) inside a fill: the f32 written for the stored sample s.
ConvertCall ==
    /\ call.op = "convert"
    /\ ~call.done
    /\ call' = [call EXCEPT !.done = TRUE,
                            !.value = convert(call.encoding, call.sample)]
    /\ UNCHANGED nodeVars

NextPcm == ConvertCall

SpecPcm == InitPcm /\ [][NextPcm]_vars

\* ------------------------------------------------------------------ channel access
\* NonZeroUsize::new(self.len()).unwrap() of a Vec<Vec<T>> panics when the
\* Vec holds no channel.
NumChannelsPanics(resource) ==
    resource.layout = "deinterleaved" /\ Len(resource.data) = 0

\* channel reading the Vec after the one asked for.
VecVecF32_channel_Next(resource, i) ==
    IF i + 1 < Len(resource.data)
    THEN Some([of |-> i + 1, samples |-> resource.data[i + 2]])
    ELSE None

\* <Vec<Vec<f32>> as SampleResourceF32>::channel,
\* self.get(i).map(|data| data.as_slice()): the borrowed slice is written as
\* the position in self of the Vec it borrows and the samples it shows.
VecVecF32_channel(resource, i) ==
    IF i < Len(resource.data)
    THEN Some([of |-> i, samples |-> resource.data[i + 1]])
    ELSE None

\* A Vec<Vec<f32>> of any number of channels, none included, is about to be
\* asked for a channel, any usize.
InitChannel ==
    /\ NodeUnused
    /\ \E channels \in ChannelCounts \cup {0}, frames \in 0..MaxFrames,
          slack \in 0..1, i \in 0..(UsizeModulus - 1) :
        /\ slack = 1 => (channels >= 2 /\ frames >= 1)
        /\ call = [op |-> "channel",
                   resource |-> DeinterleavedResource("f32", channels, frames, slack),
                   i |-> i,
                   done |-> FALSE,
                   value |-> None]

\* resource.channel(i).
ChannelCall ==
    /\ call.op = "channel"
    /\ ~call.done
    /\ call' = [call EXCEPT !.done = TRUE,
                            !.value = VecVecF32_channel(call.resource, call.i)]
    /\ UNCHANGED nodeVars

NextChannel == ChannelCall

SpecChannel == InitChannel /\ [][NextChannel]_vars

\* ------------------------------------------------------------------ types
TypeOK ==
    /\ CHANNELS \in 0..MaxChannels
    /\ pc \in {"new", "info", "idle", "drain", "dsp", "returned", "panicked"}
    /\ pending \in 0..MaxBatch
    /\ status \in {NoStatus, "ClearAllOutputs", "Bypass", "OutputsModified"}
    /\ processor # NoProcessor => processor.params \in ConvolutionNode

\* ------------------------------------------------------------------ properties
Built == pc \in {"idle", "drain", "dsp", "returned", "panicked"}
Drained == pc \in {"drain", "dsp", "returned"} /\ pending = 0
Returned == pc = "returned"
\* The channel counts the node supports.
Supported == CHANNELS \in {1, 2}
\* The patches are drained, the processor is not paused and holds an
\* impulse response.
GateOpen ==
    /\ pc = "drain"
    /\ pending = 0
    /\ ~processor.params.paused
    /\ processor.params.impulse_response # None

\* C1: when a block of a mono or stereo node returns, the paused flag equals
\* the value of the last Paused patch of the block's batch.
C1_LastPausedPatchWins ==
    (Supported /\ Returned /\ hist.lastPausedInBatch # None)
        => processor.params.paused = Unwrap(hist.lastPausedInBatch)

\* C2: a block of a mono or stereo node that begins after a Paused(true)
\* patch that no Paused(false) patch has followed, and whose own batch holds
\* no Paused(false), returns ClearAllOutputs.
C2_PauseTakesEffectNextBlock ==
    (Supported /\ Returned /\ hist.outstandingAtStart /\ ~hist.resumed)
        => status = "ClearAllOutputs"

\* C3: a pause is deferred. With a Paused(true) patch in the batch, the
\* processor unpaused and an impulse response loaded, the block goes on into
\* the DSP chain instead of returning, the paused flag is false throughout
\* the DSP chain, no patch raises the flag, and the end of that block is
\* what raises it.
C3_PauseDeferred ==
    /\ [](pc = "dsp" => ~processor.params.paused)
    /\ [][(GateOpen /\ will_pause)
            => (pc' # "returned" /\ ~processor'.params.paused)]_vars
    /\ [][(pc \in {"drain", "dsp"} /\ ~processor.params.paused
                /\ processor'.params.paused)
            => (pc = "dsp" /\ pc' = "returned" /\ will_pause
                    /\ status' = "OutputsModified")]_vars
    /\ [][(pc = "dsp" /\ will_pause)
            => (pc' = "returned" /\ processor'.params.paused)]_vars

C3_Witness ==
    /\ Returned
    /\ ~hist.pausedAtStart
    /\ will_pause
    /\ status = "OutputsModified"
    /\ processor.params.paused

C6_BypassWithoutImpulseResponse ==
    [][(/\ pc = "drain"
        /\ pending = 0
        /\ ~processor.params.paused
        /\ processor.params.impulse_response = None)
            => (pc' = "returned" /\ status' = "Bypass"
                    /\ processor' = processor)]_vars

C6_Witness ==
    /\ Returned
    /\ status = "Bypass"
    /\ will_pause
    /\ ~processor.declick.settled

\* C7: once a batch of a mono or stereo node is drained, the mix engine
\* holds the most recent Mix value and the most recent FadeCurve value sent
\* (the construction record's before any was).
C7_MixEngineHoldsLatest ==
    (Supported /\ Drained)
        => /\ processor.mix.mix = Unwrap(hist.lastMix)
           /\ processor.mix.fade_curve = Unwrap(hist.lastCurve)

\* C8: info returns normally for channel counts 1 and 2 only: a node of any
\* other channel count panics in info and goes no further.
C8_ChannelCountOneOrTwo ==
    (pc # "new" /\ CHANNELS \notin {1, 2})
        => (pc = "panicked" /\ panic_site = "info")

\* C9: a node of channel count 1 or 2 never panics after construction,
\* whatever its configuration, impulse responses and patches.
C9_ProcessNeverAborts ==
    CHANNELS \in {1, 2} => pc # "panicked"

\* C10: after an ImpulseResponse patch carrying resource r reaches a mono
\* or stereo node, the processor holds r, engine i of each of the node's channels holds channel i of r
\* (channel 0 when r has no channel i), the engines beyond the node's
\* channels are untouched, and no channel index at or beyond the node's
\* channel count was read.
C10_EnginesInitialisedPerChannel ==
    \A r \in Resources :
        (Supported /\ Built /\ hist.lastIr = Some(Some(r)))
            => /\ processor.params.impulse_response = Some(r)
               /\ \A i \in 0..(CHANNELS - 1) :
                    /\ i + 1 <= Len(processor.convolvers)
                    /\ processor.convolvers[i + 1].ir
                            = Some(IF i < num_channels(r) THEN <<r, i>> ELSE <<r, 0>>)
               /\ \A i \in 1..Len(processor.convolvers) :
                    i > CHANNELS => processor.convolvers[i].ir = None
               /\ \A j \in hist.reads : j < CHANNELS

\* A fill_buffers call has been made.
Filled == call.op = "fill_buffers" /\ call.done
\* The call's request lies inside the resource.
InBounds ==
    call.start_frame + (call.buffer_range.end - call.buffer_range.start)
        <= len_frames(call.resource)

\* C11: after an ImpulseResponse patch carrying a resource r of more
\* channels than max_impulse_channel_count reaches a mono or stereo node,
\* the engine-initialisation loop has not panicked and each allocated engine
\* i holds channel i of r, the channels of r beyond them being dropped.
C11_ExcessIrChannelsDropped ==
    \A r \in Resources :
        (/\ Supported
         /\ Built
         /\ hist.lastIr = Some(Some(r))
         /\ num_channels(r) > configuration.max_impulse_channel_count)
            => /\ panic_site # "convolvers_init"
               /\ \A i \in 1..Len(processor.convolvers) :
                    processor.convolvers[i].ir = Some(<<r, i - 1>>)

\* C12: immediately after construct_processor of a mono or stereo node the
\* processor mirrors the record: the mirrored record equals it, the mix
\* engine holds its mix and fade curve, the gain smoother holds its wet
\* gain, and when the record carries an impulse response each allocated
\* engine of the node's channels is initialised from it.
C12_ProcessorMirrorsRecord ==
    (Supported /\ pc = "idle")
        => /\ processor.params = node
           /\ processor.mix = MixDSP(node.mix, node.fade_curve)
           /\ processor.wet_gain_smoothed = SmoothedParamNew(amp(node.wet_gain))
           /\ node.impulse_response # None
                => \A i \in 1..Min(CHANNELS, Len(processor.convolvers)) :
                        processor.convolvers[i].ir
                            = Some(IrTaps(Unwrap(node.impulse_response), i - 1))

\* C13: the whole batch is drained before any DSP work and before any
\* return. No patch is pending once the DSP chain has begun or process has
\* returned, with any of its three outcomes; patches leave the event list
\* one at a time and only in the drain loop; and the step after the DSP
\* chain is the return, with no patch taken in between.
C13_BatchDrainedFirst ==
    /\ [](pc \in {"dsp", "returned"} => pending = 0)
    /\ [](Returned => status \in {"ClearAllOutputs", "Bypass", "OutputsModified"})
    /\ [][pending' < pending => (pc = "drain" /\ pending' = pending - 1)]_vars
    /\ [][pc = "dsp" => (pc' = "returned" /\ pending' = pending)]_vars

C13_Witness ==
    /\ Returned
    /\ pending = 0
    /\ hist.lastPausedInBatch = Some(TRUE)
    /\ ir_changed
    /\ status = "OutputsModified"

\* The positions in Fields of the fields in which two records differ.
Differing(a, b) ==
    {i \in 1..Len(Fields) : FieldValue(a, Fields[i]) # FieldValue(b, Fields[i])}

\* C14: diffing a record against a baseline yields exactly one patch per
\* field whose value differs, each naming the field and carrying the
\* record's value, in field-declaration order; identical records yield no
\* patch and records differing in exactly one field exactly one patch.
C14_DiffOnePatchPerChangedField ==
    (call.op = "diff" /\ call.done)
        => LET ps == call.patches
               d == Differing(call.self, call.baseline)
           IN  /\ Len(ps) = Cardinality(d)
               /\ \A k \in 1..Len(ps) :
                    \E i \in d :
                        /\ ps[k].field = PatchVariant(Fields[i])
                        /\ ps[k].value = FieldValue(call.self, Fields[i])
                        /\ \A j \in 1..(k - 1) :
                            \E h \in 1..(i - 1) :
                                ps[j].field = PatchVariant(Fields[h])
               /\ (call.self = call.baseline => ps = <<>>)
               /\ \A i \in 1..Len(Fields) :
                    d = {i} => ps = <<[field |-> PatchVariant(Fields[i]),
                                      value |-> FieldValue(call.self, Fields[i])]>>

C14_Witness ==
    /\ call.op = "diff"
    /\ call.done
    /\ Differing(call.self, call.baseline) = {1, 4}
    /\ Len(call.patches) = 2
    /\ call.patches[1].field = "Paused"
    /\ call.patches[2].field = "ImpulseResponse"

C16_FillConvertsSourceSamples ==
    (Filled /\ ~call.panicked /\ InBounds)
        => \A c \in 0..(Min(Len(call.buffers),
                            resource_num_channels(call.resource)) - 1) :
            \A i \in call.buffer_range.start..(call.buffer_range.end - 1) :
                call.buffers[c + 1][i + 1]
                    = convert(call.resource.encoding,
                              RawSample(call.resource, c,
                                        call.start_frame
                                            + (i - call.buffer_range.start)))

C16_Witness ==
    /\ Filled
    /\ ~call.panicked
    /\ InBounds
    /\ call.resource.layout = "interleaved"
    /\ call.resource.encoding = "u16"
    /\ call.resource.channels = 3
    /\ Len(call.buffers) = 2
    /\ call.start_frame = 1
    /\ call.buffer_range = [start |-> 1, end |-> 2]
    /\ call.buffers[2][2] = pcm_u16_to_f32(Stored("u16", 5))

\* C17: for channel counts 1, 2, 3 and 5, whenever fill_buffers returns, the
\* loop over the channels would have returned too for the same input and
\* left the same values at the same buffer positions as the single-channel
\* and two-channel paths did.
C17_OptimizedPathsAgreeWithGeneral ==
    (Filled /\ ~call.panicked
        /\ resource_num_channels(call.resource) \in {1, 2, 3, 5})
        => LET general == GeneralPath(call.resource, call.before,
                                      call.buffer_range, call.start_frame,
                                      call.overflow_checks)
           IN  /\ ~general.panicked
               /\ general.buffers = call.buffers

C17_Witness ==
    /\ Filled
    /\ ~call.panicked
    /\ call.resource.layout = "interleaved"
    /\ call.resource.encoding = "i16"
    /\ call.resource.channels = 2
    /\ Len(call.buffers) = 3
    /\ call.start_frame = 1
    /\ call.buffer_range = [start |-> 0, end |-> 1]
    /\ call.buffers[2][1] = pcm_i16_to_f32(Stored("i16", 4))
    /\ call.buffers[3] = call.before[3]

\* C18: whatever a fill_buffers call does, every sample of every buffer at
\* an index outside buffer_range keeps the value it had, and a call with an
\* empty range leaves every buffer as it was.
C18_FillWritesOnlyInsideRange ==
    Filled
        => /\ Len(call.buffers) = Len(call.before)
           /\ \A b \in 1..Len(call.buffers) :
                /\ Len(call.buffers[b]) = Len(call.before[b])
                /\ \A i \in 0..(Len(call.buffers[b]) - 1) :
                    (i < call.buffer_range.start \/ i >= call.buffer_range.end)
                        => call.buffers[b][i + 1] = call.before[b][i + 1]
           /\ (call.buffer_range.start = call.buffer_range.end
                    => call.buffers = call.before)

C18_Witness ==
    /\ Filled
    /\ ~call.panicked
    /\ call.buffer_range = [start |-> 1, end |-> 2]
    /\ Len(call.buffers) = 2
    /\ call.buffers[1][2] # call.before[1][2]
    /\ call.buffers[1][1] = call.before[1][1]
    /\ call.buffers[1][3] = call.before[1][3]

\* C19: a fill_buffers call that lies inside a resource whose storage is
\* whole, made with more buffers than the resource has channels or with
\* fewer, returns; it has written the range of each buffer that has a
\* channel and left every buffer beyond the channel count as it was.
C19_ExtraAndMissingBuffers ==
    (/\ Filled
     /\ InBounds
     /\ Rectangular(call.resource)
     /\ Len(call.before) # resource_num_channels(call.resource))
        => /\ ~call.panicked
           /\ \A b \in 1..Len(call.buffers) :
                IF b > resource_num_channels(call.resource)
                THEN call.buffers[b] = call.before[b]
                ELSE \A i \in call.buffer_range.start..(call.buffer_range.end - 1) :
                        call.buffers[b][i + 1]
                            = convert(call.resource.encoding,
                                      RawSample(call.resource, b - 1,
                                                call.start_frame
                                                    + (i - call.buffer_range.start)))

\* C20: a fill_buffers call with start_frame + len(buffer_range) greater
\* than len_frames panics, for every layout, encoding and channel count.
C20_OutOfRangeFillPanics ==
    (Filled /\ ~InBounds) => call.panicked

\* C21: a resource reports at least one channel and a len_frames such that
\* len_frames * num_channels samples exist in its storage, and a
\* fill_buffers call on all its channels that lies inside len_frames
\* returns.
C21_LenFramesSamplesPerChannelExist ==
    (/\ Filled
     /\ InBounds
     /\ Len(call.before) = resource_num_channels(call.resource))
        => /\ resource_num_channels(call.resource) >= 1
           /\ SamplesStored(call.resource)
                >= len_frames(call.resource) * resource_num_channels(call.resource)
           /\ ~call.panicked

\* A conversion has been made.
Converted == call.op = "convert" /\ call.done

\* C22: a converted sample is exactly the stated formula applied to the
\* stored sample: s / 32767.0 for an i16, s * (2.0 / 65535.0) - 1.0 for a
\* u16, the sample itself for an f32.
C22_PcmConversionIsStatedFormula ==
    Converted =>
        CASE call.encoding = "i16" -> call.value = F32Div(call.sample, 32767)
          [] call.encoding = "u16" ->
                call.value = F32Sub(F32Mul(F32From(call.sample),
                                           F32Div(2, 65535)), F32_ONE)
          [] call.encoding = "f32" -> call.value = call.sample

\* C30: a converted i16 or u16 lies in [-1.0, 1.0]; the u16 0 converts to
\* -1.0 and 65535 to 1.0; the i16 32767 converts to 1.0 and 0 to 0.0.
C30_ConvertedSamplesNormalized ==
    (Converted /\ call.encoding \in {"i16", "u16"})
        => /\ F32Le(F32Neg(F32_ONE), call.value)
           /\ F32Le(call.value, F32_ONE)
           /\ (call.encoding = "u16" /\ call.sample = 0)
                => call.value = F32Neg(F32_ONE)
           /\ (call.encoding = "u16" /\ call.sample = 65535)
                => call.value = F32_ONE
           /\ (call.encoding = "i16" /\ call.sample = 32767)
                => call.value = F32_ONE
           /\ (call.encoding = "i16" /\ call.sample = 0)
                => call.value = <<0, 0>>

C24_IrPatchRestartsSwapDeclicker ==
    (/\ Supported
     /\ Returned
     /\ ir_changed
     /\ processor.params.impulse_response # None)
        => processor.change_ir_declick \in {"started", "fading"}

\* The block runs the full DSP chain in this step.
DspStep == pc = "drain" /\ pc' = "dsp"

C26_PausedEmptyBlockChangesNothing ==
    [][/\ (pc \in {"idle", "returned"} /\ pc' = "drain")
            => (processor' = processor /\ outputs' = Unwritten)
       /\ (/\ pc = "drain"
           /\ pending = 0
           /\ ~hist.patched
           /\ processor.params.paused
           /\ pc' # pc)
            => /\ pc' = "returned"
               /\ status' = "ClearAllOutputs"
               /\ processor' = processor
               /\ outputs' = Unwritten]_vars

\* A paused block without patches has returned and the swap fade an earlier
\* block began is still where that block left it.
C26_Witness ==
    /\ Returned
    /\ status = "ClearAllOutputs"
    /\ ~hist.patched
    /\ processor.change_ir_declick = "fading"

\* The block enters the DSP section in this step.
DspEntered ==
    /\ pc = "drain"
    /\ pending = 0
    /\ Gate(processor.params.paused, processor.params.impulse_response)
            = "process"
    /\ pc' # pc

\* C27: after a WetGain patch the smoother's target is the amplitude of the
\* most recent one, in every processor state; the smoother's current value
\* changes only in a step that enters the DSP section; and a block that
\* runs the chain ramps the gain from the current value to the target and
\* leaves the current value at the target.
C27_WetGainRetargetsSmoother ==
    /\ []((processor # NoProcessor /\ hist.lastWetGain # None)
            => processor.wet_gain_smoothed.target
                    = amp(Unwrap(hist.lastWetGain)))
    /\ [][/\ (/\ processor # NoProcessor
              /\ processor' # NoProcessor
              /\ processor'.wet_gain_smoothed.value
                    # processor.wet_gain_smoothed.value)
                => DspEntered
          /\ DspStep
                => /\ outputs'.gain = <<processor.wet_gain_smoothed.value,
                                        processor.wet_gain_smoothed.target>>
                   /\ processor'.wet_gain_smoothed.value
                        = processor.wet_gain_smoothed.target]_vars

\* A paused block has returned with a wet-gain change received and not yet
\* applied: the smoother's target is the new amplitude, its current value
\* the old one.
C27_Witness ==
    /\ Returned
    /\ status = "ClearAllOutputs"
    /\ hist.lastWetGain # None
    /\ processor.wet_gain_smoothed.target = amp(Unwrap(hist.lastWetGain))
    /\ processor.wet_gain_smoothed.value # processor.wet_gain_smoothed.target

C29_DeclickTargetMatchesPaused ==
    (Supported /\ Returned)
        => (processor.declick.enabled <=> ~processor.params.paused)
====
